---- MODULE Spec2Model ----
(***************************************************************************)
(* Model of ProverbsApp.py: the interactive Proverbs reader (main), its    *)
(* chat sub-mode (terry_mode) and the remote chat client (query_llm).      *)
(*                                                                         *)
(* Text values are sequences of one-character strings, so that strip(),    *)
(* lower(), startswith(), split() and float()/int() are computed the way   *)
(* Python computes them.  Durations are in tenths of a second.             *)
(***************************************************************************)
EXTENDS Integers, Sequences, FiniteSets, TLC

VARIABLES
    pc,               \* "start" | "browse" (at input(), line 348) | "chat" (at input(), line 163)
                      \* | "llm" (inside query_llm, about to do_call)
                      \* | "failed" (at input(), line 334)
                      \* | "bye" (at input(), line 373) | "done" (process over)
                      \* | "box_text", "boxed" (box_text on its own, before and after)
    exit,             \* "" while main runs normally, else what ends it: "quit", "load failed",
                      \* or the name of the exception that leaves main
    corpus_file,      \* content of PROVERBS_FILE: None (missing) or a sequence of lines
    verses,           \* main's list of (ref, txt) records
    current,          \* main's `current`: None or the displayed record
    favorites,        \* content of FAV_FILE: the sequence of lines written
    TERRY_SETTINGS,   \* [model, temperature, max_tokens]
    api_key,          \* os.getenv("MISTRAL_API_KEY")
    model_candidates, \* query_llm locals
    max_tokens,
    temperature,
    midx,             \* position in model_candidates of the outer for loop (1-based)
    attempt,          \* the inner for loop's attempt
    last_err,
    ret,              \* [line, text] of the last return statement query_llm executed
    nCalls,           \* history: requests.post calls of this invocation
    lastCall,         \* history: the last do_call and what it got
    lastDelay,        \* history: the argument of the time.sleep that followed lastCall,
                      \* NoDelay when none did
    tried,            \* history: positions of model_candidates that got a call
    lastIn,           \* history: the line the last step read, the mode that read it and
                      \* whether the step called query_llm with it
    settings_shown,   \* history: the [SETTINGS] display of the last step (line 196)
    box_args,         \* box_text on its own: [w, pad, ref, text], w what term_width() gives
    box_lines         \* box_text on its own: the lines of its result, colours left out

vars == <<pc, exit, corpus_file, verses, current, favorites,
          TERRY_SETTINGS, api_key, model_candidates, max_tokens, temperature,
          midx, attempt, last_err, ret, nCalls, lastCall, lastDelay,
          tried, lastIn, settings_shown, box_args, box_lines>>

sessionVars == <<corpus_file, verses, current, favorites>>
llmLocals == <<model_candidates, max_tokens, temperature, midx, attempt, last_err>>
llmHistory == <<nCalls, lastCall, lastDelay, tried>>
boxVars == <<box_args, box_lines>>

\* Python's None: a one-element tuple no Text can equal (Text holds single characters).
None == <<"None">>

-----------------------------------------------------------------------------
(* str methods *)

IsSpace(c) == c \in {" ", "\t", "\n"}

RECURSIVE LStrip(_)
LStrip(s) == IF s # <<>> /\ IsSpace(Head(s)) THEN LStrip(Tail(s)) ELSE s

RECURSIVE RStrip(_)
RStrip(s) ==
    IF s # <<>> /\ IsSpace(s[Len(s)]) THEN RStrip(SubSeq(s, 1, Len(s) - 1)) ELSE s

\* str.strip()
Strip(s) == RStrip(LStrip(s))

LowerChar(c) ==
    CASE c = "B" -> "b" [] c = "Q" -> "q" [] c = "H" -> "h" [] c = "S" -> "s"
      [] c = "M" -> "m" [] c = "O" -> "o" [] c = "D" -> "d" [] c = "E" -> "e"
      [] c = "L" -> "l" [] c = "T" -> "t" [] c = "P" -> "p" [] c = "A" -> "a"
      [] c = "X" -> "x" [] c = "N" -> "n" [] c = "I" -> "i" [] c = "F" -> "f"
      [] c = "R" -> "r" [] c = "Y" -> "y" [] c = "G" -> "g"
      [] OTHER -> c

\* str.lower()
Lower(s) == [i \in 1..Len(s) |-> LowerChar(s[i])]

\* str.startswith(p)
StartsWith(s, p) == Len(s) >= Len(p) /\ SubSeq(s, 1, Len(p)) = p

\* s[:n]
Take(s, n) == SubSeq(s, 1, IF Len(s) < n THEN Len(s) ELSE n)

RECURSIVE FirstWord(_)
FirstWord(s) ==
    IF s = <<>> \/ IsSpace(Head(s)) THEN <<>> ELSE <<Head(s)>> \o FirstWord(Tail(s))

\* str.split(maxsplit=1): the list of at most two parts
SplitMax1(s) ==
    LET t == LStrip(s)
        w == FirstWord(t)
        rest == LStrip(SubSeq(t, Len(w) + 1, Len(t)))
    IN  IF t = <<>> THEN <<>>
        ELSE IF rest = <<>> THEN <<w>>
        ELSE <<w, rest>>

-----------------------------------------------------------------------------
(* float() and int() on a str; a float is [cls, v] with v in tenths *)

Fin(v) == [cls |-> "fin", v |-> v]
NaN == [cls |-> "nan", v |-> 0]
PosInf == [cls |-> "inf", v |-> 0]
NegInf == [cls |-> "-inf", v |-> 0]
ValueError == [cls |-> "ValueError", v |-> 0]

IsDigit(c) == c \in {"0", "1", "2", "3", "4", "5", "6", "7", "8", "9"}

DigitVal(c) ==
    CASE c = "0" -> 0 [] c = "1" -> 1 [] c = "2" -> 2 [] c = "3" -> 3 [] c = "4" -> 4
      [] c = "5" -> 5 [] c = "6" -> 6 [] c = "7" -> 7 [] c = "8" -> 8 [] c = "9" -> 9

AllDigits(s) == s # <<>> /\ \A i \in 1..Len(s) : IsDigit(s[i])

RECURSIVE DigitsVal(_)
DigitsVal(s) ==
    IF s = <<>> THEN 0 ELSE 10 * DigitsVal(SubSeq(s, 1, Len(s) - 1)) + DigitVal(s[Len(s)])

HasSign(s) == s # <<>> /\ Head(s) \in {"+", "-"}
Unsigned(s) == IF HasSign(s) THEN Tail(s) ELSE s
Negate(f) ==
    CASE f.cls = "fin" -> Fin(0 - f.v)
      [] f.cls = "inf" -> NegInf
      [] OTHER -> f

\* the digits before and after the first "."
DotAt(s) == IF \E i \in 1..Len(s) : s[i] = "."
            THEN CHOOSE i \in 1..Len(s) : s[i] = "." /\ \A j \in 1..(i - 1) : s[j] # "."
            ELSE 0

\* float(s) for s without sign: nan, inf, infinity, digits, digits.digit
ParseUnsignedFloat(s) ==
    LET d == DotAt(s)
        ip == IF d = 0 THEN s ELSE SubSeq(s, 1, d - 1)
        fp == IF d = 0 THEN <<>> ELSE SubSeq(s, d + 1, Len(s))
    IN  IF Lower(s) = <<"n", "a", "n">> THEN NaN
        ELSE IF Lower(s) \in {<<"i", "n", "f">>, <<"i", "n", "f", "i", "n", "i", "t", "y">>}
        THEN PosInf
        ELSE IF d = 0 /\ AllDigits(s) THEN Fin(10 * DigitsVal(s))
        ELSE IF d > 0 /\ (ip # <<>> \/ fp # <<>>)
                /\ (ip = <<>> \/ AllDigits(ip)) /\ (fp = <<>> \/ AllDigits(fp))
        THEN Fin(10 * DigitsVal(ip) + (IF fp = <<>> THEN 0 ELSE DigitVal(fp[1])))
        ELSE ValueError

\* float(s)
ParseFloat(s) ==
    LET t == Strip(s)
        u == ParseUnsignedFloat(Unsigned(t))
    IN  IF HasSign(t) /\ Head(t) = "-" THEN Negate(u) ELSE u

\* int(s): [ok, v]
ParseInt(s) ==
    LET t == Strip(s)
        u == Unsigned(t)
    IN  IF AllDigits(u)
        THEN [ok |-> TRUE,
              v |-> IF HasSign(t) /\ Head(t) = "-" THEN 0 - DigitsVal(u) ELSE DigitsVal(u)]
        ELSE [ok |-> FALSE, v |-> 0]

RECURSIVE NatText(_)
NatText(n) ==
    LET d == <<"0", "1", "2", "3", "4", "5", "6", "7", "8", "9">>[(n % 10) + 1]
    IN  IF n < 10 THEN <<d>> ELSE NatText(n \div 10) \o <<d>>

\* str(n) of an int
IntText(n) == IF n < 0 THEN <<"-">> \o NatText(0 - n) ELSE NatText(n)

-----------------------------------------------------------------------------
(* float arithmetic used on delays *)

\* a < b on floats: every comparison with nan is False
FLess(a, b) ==
    CASE a.cls = "nan" \/ b.cls = "nan" -> FALSE
      [] a.cls = "-inf" -> b.cls # "-inf"
      [] a.cls = "inf" -> FALSE
      [] b.cls = "-inf" -> FALSE
      [] b.cls = "inf" -> TRUE
      [] OTHER -> a.v < b.v

\* the retry cap of lines 288 and 309, 10 s
CapDelay == 100

\* min(delay, 10): Python's min keeps its first argument unless the second is smaller
MinCap(delay) == IF FLess(Fin(CapDelay), delay) THEN Fin(CapDelay) ELSE delay

\* the exception time.sleep(delay) raises, "" when it sleeps
SleepError(delay) ==
    CASE delay.cls = "nan" -> "ValueError"
      [] delay.cls = "-inf" -> "OverflowError"
      [] delay.cls = "fin" /\ delay.v < 0 -> "ValueError"
      [] OTHER -> ""

\* random.uniform(0, 0.3), in tenths
JitterValues == {0, 3}

\* 1.0 * (2 ** attempt) + random.uniform(0, 0.3)
BackoffDelay(att, jitter) == Fin(10 * (2 ^ att) + jitter)

\* mutant of RetryAfterDelay: the header is not read
RetryAfterIgnored(ra, att, jitter) == BackoffDelay(att, jitter)

\* lines 304-308: float(ra) if ra else backoff, backoff when float() raises
RetryAfterDelay(ra, att, jitter) ==
    IF ra # None /\ ra # <<>>
    THEN IF ParseFloat(ra) = ValueError THEN BackoffDelay(att, jitter) ELSE ParseFloat(ra)
    ELSE BackoffDelay(att, jitter)

-----------------------------------------------------------------------------
(* query_llm *)

LLM_ERROR == <<"[", "L", "L", "M", " ", "E", "R", "R", "O", "R">>
KEY_NOT_SET == LLM_ERROR \o <<"]", " ", "M", "I", "S", "T", "R", "A", "L", "_", "A", "P", "I", "_",
                 "K", "E", "Y", " ", "n", "o", "t", " ", "s", "e", "t", ".">>
\* the text of line 321 up to its dash
UNAUTHORIZED == LLM_ERROR \o <<"]", " ", "4", "0", "1", " ", "U", "n", "a", "u", "t", "h", "o",
                  "r", "i", "z", "e", "d">>
BAD_JSON == <<"B", "a", "d", " ", "J", "S", "O", "N", ":", " ">>
RAW == <<" ", "|", " ", "R", "a", "w", ":", " ">>
\* str(e) of the exception resp.json() or the indexing of line 299 raises
JSON_EXC == <<"E", "x", "p", "e", "c", "t", "i", "n", "g", " ", "v", "a", "l", "u", "e">>
FAILED == <<"[", "F", "A", "I", "L", "E", "D", "]", " ", "a", "f", "t", "e", "r", " ", "r", "e",
            "t", "r", "i", "e", "s", " ", "&", " ", "f", "a", "l", "l", "b", "a", "c", "k", "s",
            ".", " ", "L", "a", "s", "t", " ", "e", "r", "r", "o", "r", ":", " ">>
TIMEOUT == <<"t", "i", "m", "e", "o", "u", "t">>
MISTRAL_LARGE == <<"m", "i", "s", "t", "r", "a", "l", "-", "l", "a", "r", "g", "e", "-", "l",
                   "a", "t", "e", "s", "t">>
MISTRAL_SMALL == <<"m", "i", "s", "t", "r", "a", "l", "-", "s", "m", "a", "l", "l", "-", "l",
                   "a", "t", "e", "s", "t">>
OPEN_MIXTRAL == <<"o", "p", "e", "n", "-", "m", "i", "x", "t", "r", "a", "l", "-", "8", "x",
                  "7", "b">>

\* f"{x}" of a str or None
Str(x) == IF x = None THEN <<"N", "o", "n", "e">> ELSE x

\* range(5) of line 284
MaxAttempts == 5

\* mutant of HasKey: "if api_key is None", so an empty key goes to the network
HasKeyNotNone(key) == key # None

\* lines 233-234: whether query_llm goes on past the key check
HasKey(key) == key # None /\ key # <<>>

\* mutant of ModelCandidates: the tuned model comes last
ModelCandidatesTunedLast(settings) ==
    << OPEN_MIXTRAL, MISTRAL_LARGE, MISTRAL_SMALL,
       IF settings.model # <<>> THEN settings.model ELSE OPEN_MIXTRAL >>

\* lines 245-250, with MISTRAL_MODEL unset
ModelCandidates(settings) ==
    << IF settings.model # <<>> THEN settings.model ELSE OPEN_MIXTRAL,
       MISTRAL_LARGE, MISTRAL_SMALL, OPEN_MIXTRAL >>

\* what one do_call can meet: the remote side and the network
Bodies == {<<"e", "r", "r">>}
Contents == {<<" ", "o", "k", "\n">>}
RetryAfterValues ==
    {None, <<>>, <<"x">>, <<"0">>, <<"2">>, <<"2", "0">>, <<"-", "1">>, <<"n", "a", "n">>}
RetryableStatuses == {429, 502, 503, 504}
OtherStatuses == {403, 500}

Resp(kind, status, text, content, ra) ==
    [kind |-> kind, status |-> status, text |-> text, content |-> content, retry_after |-> ra]

\* every kind of outcome, every status and every Retry-After value; 429 comes with
\* every body and header, the other retryable statuses with two headers
Responses ==
    {Resp("timeout", 0, <<>>, None, None)}
    \cup {Resp("exception", 0, <<"c", "o", "n", "n">>, None, None)}
    \cup {Resp("http", 200, c, c, None) : c \in Contents}
    \cup {Resp("http", 200, b, None, None) : b \in Bodies}
    \cup {Resp("http", st, b, None, None) : st \in {401, 404} \cup OtherStatuses, b \in Bodies}
    \cup {Resp("http", 429, b, None, ra) : b \in Bodies, ra \in RetryAfterValues}
    \cup {Resp("http", st, <<"e", "r", "r">>, None, ra) :
            st \in RetryableStatuses, ra \in {None, <<"2">>}}

\* the outcomes met in the session specification, one of each way a do_call can go
\* on: a retry, a return, an exception that escapes
SessionResponses ==
    {Resp("timeout", 0, <<>>, None, None),
     Resp("http", 200, <<" ", "o", "k", "\n">>, <<" ", "o", "k", "\n">>, None),
     Resp("http", 503, <<"e", "r", "r">>, None, <<"-", "1">>)}

NoDelay == [cls |-> "none", v |-> 0]
NoCall == [idx |-> 0, attempt |-> 0, model |-> <<>>, max_tokens |-> 0, temperature |-> NoDelay,
           kind |-> "none", status |-> 0, text |-> <<>>, content |-> None,
           retry_after |-> None]
NoRet == [line |-> 0, text |-> <<>>]
NoIn == [mode |-> "", line |-> <<>>, asked |-> FALSE]
\* box_text is not modelled as running
NoBox == [w |-> 0, pad |-> 0, ref |-> <<>>, text |-> <<>>]
NoShown == [model |-> None, temperature |-> NoDelay, max_tokens |-> 0]

\* line 303
IsRetryable(status) == status \in {429, 502, 503, 504}

\* How one pass of the body of the inner loop (lines 285-323) ends: op is "return",
\* "continue", "break" or "raise" (an exception leaves query_llm), delay the argument
\* of time.sleep when it is called, err the value last_err has afterwards.
Returns(line, text, err) ==
    [op |-> "return", line |-> line, text |-> text, delay |-> NoDelay, err |-> err, exc |-> ""]

\* mutant of SleepThenContinue: break after the sleep
SleepThenBreak(delay, err, old) ==
    IF SleepError(delay) # ""
    THEN [op |-> "raise", line |-> 0, text |-> <<>>, delay |-> delay, err |-> old,
          exc |-> SleepError(delay)]
    ELSE [op |-> "break", line |-> 0, text |-> <<>>, delay |-> delay, err |-> err,
          exc |-> ""]

\* time.sleep(delay); last_err = err; continue
SleepThenContinue(delay, err, old) ==
    IF SleepError(delay) # ""
    THEN [op |-> "raise", line |-> 0, text |-> <<>>, delay |-> delay, err |-> old,
          exc |-> SleepError(delay)]
    ELSE [op |-> "continue", line |-> 0, text |-> <<>>, delay |-> delay, err |-> err,
          exc |-> ""]

\* mutant of OnTimeout: break after the sleep, the next model is tried
OnTimeoutBreak(att, jitter, old) ==
    [op |-> "break", line |-> 0, text |-> <<>>, delay |-> MinCap(BackoffDelay(att, jitter)),
     err |-> TIMEOUT, exc |-> ""]

\* lines 287-292
OnTimeout(att, jitter, old) ==
    SleepThenContinue(MinCap(BackoffDelay(att, jitter)), TIMEOUT, old)

\* lines 293-294
OnException(resp, old) == Returns(294, LLM_ERROR \o <<"]", " ">> \o resp.text, old)

\* lines 296-301
On200(resp, old) ==
    IF resp.content # None
    THEN Returns(299, Strip(resp.content), old)
    ELSE Returns(301, LLM_ERROR \o <<"]", " ">> \o BAD_JSON \o JSON_EXC \o RAW
                      \o Take(resp.text, 300), old)

\* lines 303-313
OnRetryable(resp, att, jitter, old) ==
    SleepThenContinue(MinCap(RetryAfterDelay(resp.retry_after, att, jitter)), resp.text, old)

\* mutant of On404: continue instead of break, the model is tried again
On404Continue(resp, old) ==
    [op |-> "continue", line |-> 0, text |-> <<>>, delay |-> NoDelay, err |-> resp.text,
     exc |-> ""]

\* mutant of On404: last_err is not set
On404KeepsErr(resp, old) ==
    [op |-> "break", line |-> 0, text |-> <<>>, delay |-> NoDelay, err |-> old, exc |-> ""]

\* lines 315-318
On404(resp, old) ==
    [op |-> "break", line |-> 0, text |-> <<>>, delay |-> NoDelay, err |-> resp.text,
     exc |-> ""]

\* mutant of On401: break instead of return, the next model is tried
On401Break(resp, old) ==
    [op |-> "break", line |-> 0, text |-> <<>>, delay |-> NoDelay, err |-> resp.text,
     exc |-> ""]

\* lines 320-321
On401(resp, old) == Returns(321, UNAUTHORIZED, old)

\* mutant of OnOther: an unknown status gives the model up like a 404
OnOtherBreak(resp, old) ==
    [op |-> "break", line |-> 0, text |-> <<>>, delay |-> NoDelay, err |-> resp.text,
     exc |-> ""]

\* line 323
OnOther(resp, old) ==
    Returns(323, LLM_ERROR \o <<" ">> \o IntText(resp.status) \o <<"]", " ">>
                 \o Take(resp.text, 400), old)

\* lines 285-323 for the response resp at attempt att, last_err being old
Handle(resp, att, jitter, old) ==
    IF resp.kind = "timeout" THEN OnTimeout(att, jitter, old)
    ELSE IF resp.kind = "exception" THEN OnException(resp, old)
    ELSE IF resp.status = 200 THEN On200(resp, old)
    ELSE IF IsRetryable(resp.status) THEN OnRetryable(resp, att, jitter, old)
    ELSE IF resp.status = 404 THEN On404(resp, old)
    ELSE IF resp.status = 401 THEN On401(resp, old)
    ELSE OnOther(resp, old)

\* mutant of MoreAttempts: range(6)
MoreAttemptsSix(att) == att + 1 < 6

\* whether the inner loop has another pass after a continue at attempt att
MoreAttempts(att) == att + 1 < MaxAttempts

\* query_llm returns text from the return statement at line: terry_mode shows it
\* (line 201) and reads the next line
Return(line, text) ==
    /\ ret' = [line |-> line, text |-> text]
    /\ pc' = "chat"
    /\ UNCHANGED exit

\* main ends for cause (lines 367-375): after "Bye." the finally clause waits for
\* Enter when stdin is not a terminal, which sys.stdin.isatty() tells only here
Exit(cause) ==
    /\ exit' = cause
    /\ pc' \in {"done", "bye"}

\* an exception other than KeyboardInterrupt leaves query_llm, terry_mode (line 203
\* catches KeyboardInterrupt only) and main (line 367 likewise)
Crash(exc) ==
    /\ Exit(exc)
    /\ UNCHANGED ret

\* the outer loop moves to the next candidate, or falls out to line 325
NextModel(err) ==
    IF midx < Len(model_candidates)
    THEN /\ midx' = midx + 1
         /\ attempt' = 0
         /\ UNCHANGED <<pc, exit, ret>>
    ELSE /\ Return(325, FAILED \o Str(err))
         /\ UNCHANGED <<midx, attempt>>

\* lines 286-323: one do_call and everything up to the next do_call or the end
DoCall(resp, jitter) ==
    LET h == Handle(resp, attempt, jitter, last_err)
    IN  /\ pc = "llm"
        /\ nCalls' = nCalls + 1
        /\ tried' = tried \cup {midx}
        /\ lastCall' = [idx |-> midx, attempt |-> attempt, model |-> model_candidates[midx],
                        max_tokens |-> max_tokens, temperature |-> temperature,
                        kind |-> resp.kind, status |-> resp.status, text |-> resp.text,
                        content |-> resp.content, retry_after |-> resp.retry_after]
        /\ lastDelay' = h.delay
        /\ last_err' = h.err
        /\ CASE h.op = "return" ->
                  /\ Return(h.line, h.text)
                  /\ UNCHANGED <<midx, attempt>>
             [] h.op = "raise" ->
                  /\ Crash(h.exc)
                  /\ UNCHANGED <<midx, attempt>>
             [] h.op = "continue" /\ MoreAttempts(attempt) ->
                  /\ attempt' = attempt + 1
                  /\ UNCHANGED <<midx, pc, exit, ret>>
             [] OTHER -> NextModel(h.err)
        /\ lastIn' = NoIn
        /\ settings_shown' = NoShown
        /\ UNCHANGED boxVars
        /\ UNCHANGED <<sessionVars, TERRY_SETTINGS, api_key, model_candidates, max_tokens,
                       temperature>>

-----------------------------------------------------------------------------
(* load_verses *)

NoneVerse == [ref |-> None, txt |-> None]
PROVERBS == <<"p", "r", "o", "v", "e", "r", "b", "s">>
NO_REF == <<"P", "r", "o", "v", "e", "r", "b", "s", " ", "?">>

\* how many characters of s from position i on are spaces (kind "s") or digits ("d")
RECURSIVE RunLen(_, _, _)
RunLen(s, i, kind) ==
    IF i <= Len(s) /\ (IF kind = "s" THEN IsSpace(s[i]) ELSE IsDigit(s[i]))
    THEN 1 + RunLen(s, i + 1, kind)
    ELSE 0

\* REF_RE.match(ln) of line 60 on a stripped line: <<group(1), group(2)>>, or <<>>
RefMatch(ln) ==
    LET n == Len(PROVERBS)
        s1 == RunLen(ln, n + 1, "s")
        c == n + s1 + 1
        d1 == RunLen(ln, c, "d")
        d2 == RunLen(ln, c + d1 + 1, "d")
        e == c + d1 + 1 + d2
        s2 == RunLen(ln, e, "s")
    IN  IF /\ Len(ln) >= n
           /\ Lower(SubSeq(ln, 1, n)) = PROVERBS
           /\ s1 >= 1 /\ d1 >= 1
           /\ c + d1 <= Len(ln) /\ ln[c + d1] = ":"
           /\ d2 >= 1 /\ s2 >= 1
        THEN <<SubSeq(ln, 1, e - 1), SubSeq(ln, e + s2, Len(ln))>>
        ELSE <<>>

\* mutant of ParseLines: blank lines are not skipped
RECURSIVE ParseLinesKeepBlank(_)
ParseLinesKeepBlank(lines) ==
    IF lines = <<>> THEN <<>>
    ELSE LET ln == Strip(Head(lines))
             m == RefMatch(ln)
         IN  IF m # <<>> THEN <<[ref |-> m[1], txt |-> m[2]]>> \o ParseLinesKeepBlank(Tail(lines))
             ELSE <<[ref |-> NO_REF, txt |-> ln]>> \o ParseLinesKeepBlank(Tail(lines))

\* lines 80-89: the records of the lines of an existing file
RECURSIVE ParseLines(_)
ParseLines(lines) ==
    IF lines = <<>> THEN <<>>
    ELSE LET ln == Strip(Head(lines))
             m == RefMatch(ln)
         IN  IF ln = <<>> THEN ParseLines(Tail(lines))
             ELSE IF m # <<>> THEN <<[ref |-> m[1], txt |-> m[2]]>> \o ParseLines(Tail(lines))
             ELSE <<[ref |-> NO_REF, txt |-> ln]>> \o ParseLines(Tail(lines))

\* load_verses: [exc, verses], exc the exception it raises or ""
load_verses(file) ==
    IF file = None THEN [exc |-> "FileNotFoundError", verses |-> <<>>]
    ELSE IF ParseLines(file) = <<>> THEN [exc |-> "ValueError", verses |-> <<>>]
    ELSE [exc |-> "", verses |-> ParseLines(file)]

LINE_REF == <<"P", "r", "o", "v", "e", "r", "b", "s", " ", "1", ":", "7", " ", " ", "f", "e",
              "a", "r">>
LINE_PLAIN == <<"a", " ", "s", "o", "f", "t", " ", "a", "n", "s", "w", "e", "r">>

\* PROVERBS_FILE as main finds it: missing, blank lines only, or with records
CorpusFiles == {None, << <<" ", " ">>, <<>> >>, <<LINE_REF, <<" ">>, LINE_PLAIN>>}

-----------------------------------------------------------------------------
(* main *)

DefaultTemperature == 7
DefaultMaxTokens == 256

\* os.getenv("MISTRAL_API_KEY"): unset, empty, or a key
ApiKeys == {None, <<>>, <<"k">>}

\* bounds of the exploration
MaxFavorites == 2

Init ==
    /\ pc = "start"
    /\ exit = ""
    /\ corpus_file \in CorpusFiles
    /\ verses = <<>>
    /\ current = NoneVerse
    /\ favorites = <<>>
    /\ TERRY_SETTINGS = [model |-> OPEN_MIXTRAL, temperature |-> Fin(DefaultTemperature),
                         max_tokens |-> DefaultMaxTokens]
    /\ api_key \in ApiKeys
    /\ model_candidates = <<>>
    /\ max_tokens = 0
    /\ temperature = NoDelay
    /\ midx = 0
    /\ attempt = 0
    /\ last_err = None
    /\ ret = NoRet
    /\ nCalls = 0
    /\ lastCall = NoCall
    /\ lastDelay = NoDelay
    /\ tried = {}
    /\ lastIn = NoIn
    /\ settings_shown = NoShown
    /\ box_args = NoBox
    /\ box_lines = <<>>

\* a step that reads no line and shows no settings
NoIO == lastIn' = NoIn /\ settings_shown' = NoShown /\ UNCHANGED boxVars

\* lines 343-346: current is None, so a record is sampled and rendered
Render(vs) == \E i \in 1..Len(vs) : current' = vs[i]

\* lines 328-346: load the corpus; report the failure and wait for Enter (line 334),
\* or show the title and the first record
Start ==
    /\ pc = "start"
    /\ LET r == load_verses(corpus_file)
       IN  IF r.exc # ""
           THEN /\ pc' = "failed"
                /\ exit' = "load failed"
                /\ UNCHANGED <<verses, current>>
           ELSE /\ verses' = r.verses
                /\ Render(r.verses)
                /\ pc' = "browse"
                /\ UNCHANGED exit
    /\ NoIO
    /\ UNCHANGED <<corpus_file, favorites, TERRY_SETTINGS, api_key, llmLocals, ret,
                   llmHistory>>

\* lines 333-336: whatever ends the input() of line 334 (Enter, end of input, Ctrl-C),
\* the return in the finally clause ends main
FailPrompt ==
    /\ pc = "failed"
    /\ pc' = "done"
    /\ NoIO
    /\ UNCHANGED <<exit, sessionVars, TERRY_SETTINGS, api_key, llmLocals, ret, llmHistory>>

\* lines 328-338: Ctrl-C while main loads the corpus or prints the title: the except
\* clause of line 331 catches Exception only and the try of line 341 is not entered
StartInterrupt ==
    /\ pc = "start"
    /\ pc' = "done"
    /\ exit' = "KeyboardInterrupt"
    /\ NoIO
    /\ UNCHANGED <<sessionVars, TERRY_SETTINGS, api_key, llmLocals, ret, llmHistory>>

Q == <<"q">>
H == <<"h">>
S == <<"s">>
B == <<"b">>
TERRY == <<"/", "t", "e", "r", "r", "y">>

\* the lines typed at the Browse prompt
BrowseLines ==
    {<<>>, Q, <<" ", "Q">>, H, <<" ", "S", " ">>, S, TERRY, <<"/", "T", "e", "r", "r", "y">>,
     <<"n">>}

\* line 349
BrowseCmd(s) == Lower(Strip(s))

\* what a Browse step leaves alone besides the variables it names
BrowseFrame(s) ==
    /\ lastIn' = [mode |-> "browse", line |-> s, asked |-> FALSE]
    /\ settings_shown' = NoShown
    /\ UNCHANGED boxVars
    /\ UNCHANGED <<corpus_file, verses, TERRY_SETTINGS, api_key, llmLocals, ret,
                   llmHistory>>

\* lines 351-352
BrowseQuit(s) ==
    /\ pc = "browse"
    /\ BrowseCmd(s) = Q
    /\ Exit("quit")
    /\ UNCHANGED <<current, favorites>>
    /\ BrowseFrame(s)

\* lines 353-354
BrowseHelp(s) ==
    /\ pc = "browse"
    /\ BrowseCmd(s) # Q /\ BrowseCmd(s) = H
    /\ UNCHANGED <<pc, exit, current, favorites>>
    /\ BrowseFrame(s)

\* mutant of save_favorite: the file is opened with "w"
save_favorite_truncating(ref, text, ok) ==
    IF ok
    THEN /\ favorites' = <<[ref |-> ref, text |-> text]>>
         /\ UNCHANGED <<pc, exit>>
    ELSE /\ UNCHANGED favorites
         /\ Exit("OSError")

\* save_favorite, lines 121-126: one line appended (its time stamp is left out); ok
\* is whether FAV_FILE's directory and the file can be written
save_favorite(ref, text, ok) ==
    IF ok
    THEN /\ favorites' = Append(favorites, [ref |-> ref, text |-> text])
         /\ UNCHANGED <<pc, exit>>
    ELSE /\ UNCHANGED favorites
         /\ Exit("OSError")

\* lines 355-358
BrowseSave(s, ok) ==
    /\ pc = "browse"
    /\ BrowseCmd(s) \notin {Q, H} /\ BrowseCmd(s) = S
    /\ Len(favorites) < MaxFavorites
    /\ IF current # NoneVerse
       THEN save_favorite(current.ref, current.txt, ok)
       ELSE UNCHANGED <<pc, exit, favorites>>
    /\ UNCHANGED current
    /\ BrowseFrame(s)

\* lines 359-360: terry_mode() prints its title and reads its first line
BrowseTerry(s) ==
    /\ pc = "browse"
    /\ BrowseCmd(s) \notin {Q, H, S} /\ BrowseCmd(s) = TERRY
    /\ pc' = "chat"
    /\ UNCHANGED <<exit, current, favorites>>
    /\ BrowseFrame(s)

\* lines 363-366
BrowseNext(s) ==
    /\ pc = "browse"
    /\ BrowseCmd(s) \notin {Q, H, S, TERRY}
    /\ Render(verses)
    /\ UNCHANGED <<pc, exit, favorites>>
    /\ BrowseFrame(s)

\* lines 367-368: Ctrl-C at the Browse prompt
BrowseInterrupt ==
    /\ pc = "browse"
    /\ Exit("interrupt")
    /\ NoIO
    /\ UNCHANGED <<sessionVars, TERRY_SETTINGS, api_key, llmLocals, ret, llmHistory>>

\* line 373: Enter at "Press Enter to exit"
ByeEnter ==
    /\ pc = "bye"
    /\ pc' = "done"
    /\ NoIO
    /\ UNCHANGED <<exit, sessionVars, TERRY_SETTINGS, api_key, llmLocals, ret, llmHistory>>

\* lines 371-375: Ctrl-C at "Press Enter to exit" is no Exception, so it leaves main
ByeInterrupt ==
    /\ pc = "bye"
    /\ pc' = "done"
    /\ exit' = "KeyboardInterrupt"
    /\ NoIO
    /\ UNCHANGED <<sessionVars, TERRY_SETTINGS, api_key, llmLocals, ret, llmHistory>>

-----------------------------------------------------------------------------
(* terry_mode *)

MODEL_ == <<"/", "m", "o", "d", "e", "l", " ">>
TEMP_ == <<"/", "t", "e", "m", "p", " ">>
MAX_ == <<"/", "m", "a", "x", " ">>
SETTINGS == <<"/", "s", "e", "t", "t", "i", "n", "g", "s">>
SET == <<"/", "s", "e", "t">>
SLASH_S == <<"/", "s">>

\* the lines typed at the TERRY prompt
ChatLines ==
    {<<>>, <<" ", " ">>, <<" ", "Q">>, B,
     <<"/", "M", "O", "D", "E", "L", " ", " ", "X", "y">>,
     <<"/", "t", "e", "m", "p", " ", "0", ".", "3">>,
     <<"/", "T", "e", "m", "p", " ", "0", ".", "7">>,
     <<"/", "t", "e", "m", "p", " ", "h", "o", "t">>,
     <<"/", "m", "a", "x", " ", "1", "2", "8">>,
     <<"/", "m", "a", "x", " ", "3", ".", "5">>,
     SETTINGS, <<"/", "S">>,
     <<"/", "s", "e", "t", "t", "i", "n", "g", "s", " ", "n", "o", "w">>,
     <<"/", "m", "o", "d", "e", "l", " ", " ">>,
     <<"/", "s", "o", "s">>,
     <<" ", "h", "i", " ">>}

\* mutant of ChatBranch: the settings commands are matched as prefixes
ChatBranchPrefix(query) ==
    LET cmd == Strip(query)
        low == Lower(cmd)
    IN  IF cmd = <<>> THEN "blank"
        ELSE IF low = Q THEN "quit"
        ELSE IF low = B THEN "back"
        ELSE IF StartsWith(low, MODEL_) THEN "model"
        ELSE IF StartsWith(low, TEMP_) THEN "temp"
        ELSE IF StartsWith(low, MAX_) THEN "max"
        ELSE IF \E p \in {SETTINGS, SET, SLASH_S} : StartsWith(low, p) THEN "settings"
        ELSE "ask"

\* the if chain of lines 166-200 on the line read: the branch that handles it
ChatBranch(query) ==
    LET cmd == Strip(query)
        low == Lower(cmd)
    IN  IF cmd = <<>> THEN "blank"
        ELSE IF low = Q THEN "quit"
        ELSE IF low = B THEN "back"
        ELSE IF StartsWith(low, MODEL_) THEN "model"
        ELSE IF StartsWith(low, TEMP_) THEN "temp"
        ELSE IF StartsWith(low, MAX_) THEN "max"
        ELSE IF low \in {SETTINGS, SET, SLASH_S} THEN "settings"
        ELSE "ask"

\* cmd.split(maxsplit=1)[1] of lines 176, 181, 189
Arg(query) == SplitMax1(Strip(query))[2]

\* the locals and the history of query_llm between two invocations
LLMIdle ==
    /\ model_candidates' = <<>>
    /\ max_tokens' = 0
    /\ temperature' = NoDelay
    /\ midx' = 0
    /\ attempt' = 0
    /\ last_err' = None
    /\ nCalls' = 0
    /\ lastCall' = NoCall
    /\ lastDelay' = NoDelay
    /\ tried' = {}

\* a Chat step that does not call query_llm
ChatLocal(query) ==
    /\ lastIn' = [mode |-> "chat", line |-> query, asked |-> FALSE]
    /\ LLMIdle
    /\ ret' = NoRet
    /\ UNCHANGED <<corpus_file, verses, favorites, api_key>>

\* lines 166-167
ChatBlank(query) ==
    /\ pc = "chat"
    /\ ChatBranch(query) = "blank"
    /\ settings_shown' = NoShown
    /\ UNCHANGED boxVars
    /\ UNCHANGED <<pc, exit, current, TERRY_SETTINGS>>
    /\ ChatLocal(query)

\* lines 168-169: sys.exit(0) raises SystemExit, which leaves terry_mode and main
ChatQuit(query) ==
    /\ pc = "chat"
    /\ ChatBranch(query) = "quit"
    /\ Exit("SystemExit")
    /\ settings_shown' = NoShown
    /\ UNCHANGED boxVars
    /\ UNCHANGED <<current, TERRY_SETTINGS>>
    /\ ChatLocal(query)

\* terry_mode returns to line 361: current = None, the title, and at the top of the
\* loop a record is sampled and rendered before input() is reached
BackToBrowse ==
    /\ pc' = "browse"
    /\ Render(verses)
    /\ UNCHANGED exit

\* lines 170-172
ChatBack(query) ==
    /\ pc = "chat"
    /\ ChatBranch(query) = "back"
    /\ BackToBrowse
    /\ settings_shown' = NoShown
    /\ UNCHANGED boxVars
    /\ UNCHANGED TERRY_SETTINGS
    /\ ChatLocal(query)

\* lines 175-178
ChatModel(query) ==
    /\ pc = "chat"
    /\ ChatBranch(query) = "model"
    /\ TERRY_SETTINGS' = [TERRY_SETTINGS EXCEPT !.model = Arg(query)]
    /\ settings_shown' = NoShown
    /\ UNCHANGED boxVars
    /\ UNCHANGED <<pc, exit, current>>
    /\ ChatLocal(query)

\* lines 180-185: the settings after '/temp' with argument arg
SetTemp(settings, arg) ==
    IF ParseFloat(arg) = ValueError THEN settings
    ELSE [settings EXCEPT !.temperature = ParseFloat(arg)]

\* mutant of SetMax: the value is stored under "temperature"
SetMaxWrongKey(settings, arg) ==
    IF ParseInt(arg).ok
    THEN [settings EXCEPT !.temperature = Fin(10 * ParseInt(arg).v)]
    ELSE settings

\* lines 188-193: the settings after '/max' with argument arg
SetMax(settings, arg) ==
    IF ParseInt(arg).ok
    THEN [settings EXCEPT !.max_tokens = ParseInt(arg).v]
    ELSE settings

\* lines 179-186
ChatTemp(query) ==
    /\ pc = "chat"
    /\ ChatBranch(query) = "temp"
    /\ TERRY_SETTINGS' = SetTemp(TERRY_SETTINGS, Arg(query))
    /\ settings_shown' = NoShown
    /\ UNCHANGED boxVars
    /\ UNCHANGED <<pc, exit, current>>
    /\ ChatLocal(query)

\* lines 187-194
ChatMax(query) ==
    /\ pc = "chat"
    /\ ChatBranch(query) = "max"
    /\ TERRY_SETTINGS' = SetMax(TERRY_SETTINGS, Arg(query))
    /\ settings_shown' = NoShown
    /\ UNCHANGED boxVars
    /\ UNCHANGED <<pc, exit, current>>
    /\ ChatLocal(query)

\* lines 195-197
ChatSettings(query) ==
    /\ pc = "chat"
    /\ ChatBranch(query) = "settings"
    /\ UNCHANGED boxVars
    /\ settings_shown' = [model |-> TERRY_SETTINGS.model,
                          temperature |-> TERRY_SETTINGS.temperature,
                          max_tokens |-> TERRY_SETTINGS.max_tokens]
    /\ UNCHANGED <<pc, exit, current, TERRY_SETTINGS>>
    /\ ChatLocal(query)

\* line 200 and query_llm up to its first do_call (lines 233-283)
ChatAsk(query) ==
    /\ pc = "chat"
    /\ ChatBranch(query) = "ask"
    /\ IF ~HasKey(api_key)
       THEN /\ Return(235, KEY_NOT_SET)
            /\ LLMIdle
       ELSE /\ model_candidates' = ModelCandidates(TERRY_SETTINGS)
            /\ max_tokens' = TERRY_SETTINGS.max_tokens
            /\ temperature' = TERRY_SETTINGS.temperature
            /\ midx' = 1
            /\ attempt' = 0
            /\ last_err' = None
            /\ nCalls' = 0
            /\ lastCall' = NoCall
            /\ lastDelay' = NoDelay
            /\ tried' = {}
            /\ ret' = NoRet
            /\ pc' = "llm"
            /\ UNCHANGED exit
    /\ settings_shown' = NoShown
    /\ UNCHANGED boxVars
    /\ lastIn' = [mode |-> "chat", line |-> query, asked |-> TRUE]
    /\ UNCHANGED <<corpus_file, verses, current, favorites, TERRY_SETTINGS, api_key>>

\* lines 203-204: Ctrl-C at the TERRY prompt
ChatInterrupt ==
    /\ pc = "chat"
    /\ BackToBrowse
    /\ LLMIdle
    /\ ret' = NoRet
    /\ NoIO
    /\ UNCHANGED <<corpus_file, verses, favorites, TERRY_SETTINGS, api_key>>

\* lines 203-204: Ctrl-C inside query_llm, during requests.post or time.sleep, leaves
\* query_llm and is caught by terry_mode
QueryInterrupt ==
    /\ pc = "llm"
    /\ BackToBrowse
    /\ LLMIdle
    /\ ret' = NoRet
    /\ NoIO
    /\ UNCHANGED <<corpus_file, verses, favorites, TERRY_SETTINGS, api_key>>

-----------------------------------------------------------------------------

Browse ==
    \E s \in BrowseLines :
        \/ BrowseQuit(s)
        \/ BrowseHelp(s)
        \/ \E ok \in BOOLEAN : BrowseSave(s, ok)
        \/ BrowseTerry(s)
        \/ BrowseNext(s)

Chat ==
    \E query \in ChatLines :
        \/ ChatBlank(query)
        \/ ChatQuit(query)
        \/ ChatBack(query)
        \/ ChatModel(query)
        \/ ChatTemp(query)
        \/ ChatMax(query)
        \/ ChatSettings(query)
        \/ ChatAsk(query)

Query == \E resp \in SessionResponses, jitter \in JitterValues : DoCall(resp, jitter)

Next ==
    \/ Start
    \/ StartInterrupt
    \/ FailPrompt
    \/ Browse
    \/ BrowseInterrupt
    \/ Chat
    \/ ChatInterrupt
    \/ Query
    \/ QueryInterrupt
    \/ ByeEnter
    \/ ByeInterrupt

Spec == Init /\ [][Next]_vars

-----------------------------------------------------------------------------
(* query_llm on its own: invoked from the TERRY prompt under any settings the tuning *)
(* commands can set, against every response                                         *)

SettingsReached ==
    {[model |-> m, temperature |-> Fin(t), max_tokens |-> k] :
        m \in {OPEN_MIXTRAL, <<"X", "y">>}, t \in {DefaultTemperature}, k \in {DefaultMaxTokens}}

InitLLM ==
    /\ pc = "chat"
    /\ exit = ""
    /\ corpus_file = <<LINE_REF>>
    /\ verses = load_verses(corpus_file).verses
    /\ current = verses[1]
    /\ favorites = <<>>
    /\ TERRY_SETTINGS \in SettingsReached
    /\ api_key \in ApiKeys
    /\ model_candidates = <<>>
    /\ max_tokens = 0
    /\ temperature = NoDelay
    /\ midx = 0
    /\ attempt = 0
    /\ last_err = None
    /\ ret = NoRet
    /\ nCalls = 0
    /\ lastCall = NoCall
    /\ lastDelay = NoDelay
    /\ tried = {}
    /\ lastIn = NoIn
    /\ settings_shown = NoShown
    /\ box_args = NoBox
    /\ box_lines = <<>>

Ask == \E query \in ChatLines : ChatAsk(query)

QueryAny == \E resp \in Responses, jitter \in JitterValues : DoCall(resp, jitter)

NextLLM == Ask \/ QueryAny

SpecLLM == InitLLM /\ [][NextLLM]_vars

-----------------------------------------------------------------------------
(* box_text on its own.  A line is the sequence of its visible characters: the *)
(* colour escape sequences are left out, and a box-drawing character is one    *)
(* token ("tl", "tr", "bl", "br", "h", "v").                                   *)

Max(a, b) == IF a > b THEN a ELSE b
Min(a, b) == IF a < b THEN a ELSE b

\* c * n
Rep(c, n) == [i \in 1..n |-> c]

\* how many characters at the start of s are of the class (space or not) of s[1]
RECURSIVE ChunkLen(_)
ChunkLen(s) ==
    IF Len(s) >= 2 /\ IsSpace(s[2]) = IsSpace(s[1]) THEN 1 + ChunkLen(Tail(s)) ELSE 1

\* TextWrapper._split on text without hyphens: the runs of spaces and the words
RECURSIVE Chunks(_)
Chunks(s) ==
    IF s = <<>> THEN <<>>
    ELSE <<SubSeq(s, 1, ChunkLen(s))>> \o Chunks(SubSeq(s, ChunkLen(s) + 1, Len(s)))

\* TextWrapper._wrap_chunks, the inner while loop: chunks go on the line while they fit
RECURSIVE FillLine(_, _, _)
FillLine(chunks, cur, width) ==
    IF chunks # <<>> /\ Len(cur) + Len(Head(chunks)) <= width
    THEN FillLine(Tail(chunks), cur \o Head(chunks), width)
    ELSE [line |-> cur, rest |-> chunks]

\* TextWrapper._handle_long_word with break_long_words: a chunk longer than the
\* width gives the line as much of itself as the line has room for
BreakLongWord(g, width) ==
    IF g.rest # <<>> /\ Len(Head(g.rest)) > width
    THEN LET space_left == width - Len(g.line)
             chunk == Head(g.rest)
         IN  [line |-> g.line \o SubSeq(chunk, 1, space_left),
              rest |-> <<SubSeq(chunk, space_left + 1, Len(chunk))>> \o Tail(g.rest)]
    ELSE g

\* TextWrapper._wrap_chunks, the outer loop: n lines are out; white space is dropped
\* at the start of every line but the first and at the end of every line
RECURSIVE WrapChunks(_, _, _)
WrapChunks(chunks, width, n) ==
    IF chunks = <<>> THEN <<>>
    ELSE LET c0 == IF n > 0 /\ IsSpace(Head(chunks)[1]) THEN Tail(chunks) ELSE chunks
             g == BreakLongWord(FillLine(c0, <<>>, width), width)
             ln == RStrip(g.line)
         IN  IF ln # <<>>
             THEN <<ln>> \o WrapChunks(g.rest, width, n + 1)
             ELSE WrapChunks(g.rest, width, n)

\* fill(text, width=inner).splitlines(), lines 97 and 106
WrappedLines(text, inner) == WrapChunks(Chunks(text), inner, 0)

\* str.center(width): the odd space goes left when the width is odd
Center(s, width) ==
    LET marg == width - Len(s)
        left == (marg \div 2) + (IF marg % 2 = 1 /\ width % 2 = 1 THEN 1 ELSE 0)
    IN  IF marg <= 0 THEN s ELSE Rep(" ", left) \o s \o Rep(" ", marg - left)

\* str.ljust(width)
LJust(s, width) == IF Len(s) >= width THEN s ELSE s \o Rep(" ", width - Len(s))

\* line 96
Inner(w, pad) == Max(20, Min(w - 2 - pad * 2, 120))

\* box_text, lines 95-110, for the terminal width w: the lines that are joined
box_text(ref, text, pad, w) ==
    LET inner == Inner(w, pad)
        top == <<"tl">> \o Rep("h", inner + pad * 2) \o <<"tr">>
        bot == <<"bl">> \o Rep("h", inner + pad * 2) \o <<"br">>
        ref_line == Center(Strip(ref), inner + pad * 2)
        sep == Rep("h", inner + pad * 2)
        wrapped == WrappedLines(text, inner)
        row(ln) == <<"v">> \o Rep(" ", pad) \o LJust(ln, inner) \o Rep(" ", pad) \o <<"v">>
    IN  <<top,
          <<"v">> \o Rep(" ", pad) \o ref_line \o <<"v">>,
          <<"v">> \o Rep(" ", pad) \o sep \o <<"v">> >>
        \o [i \in 1..Len(wrapped) |-> row(wrapped[i])]
        \o <<bot>>

\* shutil.get_terminal_size().columns: narrow, at the floor of line 96, usual, wide
TermWidths == {10, 26, 40, 80, 200}

\* pad: the default of line 94, and none
Pads == {0, 2}

BoxRefs ==
    {<<"P", "r", "o", "v", "e", "r", "b", "s", " ", "1", ":", "7">>,
     <<" ", "Y", "o", "u", "r", " ", "A", "n", "s", "w", "e", "r", ":">>,
     NO_REF}

\* no text, one word, a sentence that wraps at 20 and at 36, a word longer than a line
BoxTexts ==
    {<<>>, <<"f", "e", "a", "r">>,
     LINE_PLAIN \o <<" ", " ">> \o LINE_PLAIN \o <<" ">> \o LINE_PLAIN,
     <<"a", " ">> \o Rep("x", 45) \o <<" ", "b">>}

InitBox ==
    /\ pc = "box_text"
    /\ exit = ""
    /\ corpus_file = None
    /\ verses = <<>>
    /\ current = NoneVerse
    /\ favorites = <<>>
    /\ TERRY_SETTINGS = [model |-> OPEN_MIXTRAL, temperature |-> Fin(DefaultTemperature),
                         max_tokens |-> DefaultMaxTokens]
    /\ api_key = None
    /\ model_candidates = <<>>
    /\ max_tokens = 0
    /\ temperature = NoDelay
    /\ midx = 0
    /\ attempt = 0
    /\ last_err = None
    /\ ret = NoRet
    /\ nCalls = 0
    /\ lastCall = NoCall
    /\ lastDelay = NoDelay
    /\ tried = {}
    /\ lastIn = NoIn
    /\ settings_shown = NoShown
    /\ box_args \in [w : TermWidths, pad : Pads, ref : BoxRefs, text : BoxTexts]
    /\ box_lines = <<>>

\* one call of box_text
BoxText ==
    /\ pc = "box_text"
    /\ box_lines' = box_text(box_args.ref, box_args.text, box_args.pad, box_args.w)
    /\ pc' = "boxed"
    /\ UNCHANGED <<exit, sessionVars, TERRY_SETTINGS, api_key, llmLocals, ret, llmHistory,
                   lastIn, settings_shown, box_args>>

NextBox == BoxText

SpecBox == InitBox /\ [][NextBox]_vars

-----------------------------------------------------------------------------
(* Properties of query_llm *)

FAILED_MARK == <<"[", "F", "A", "I", "L", "E", "D">>

\* a step that is one do_call of the running invocation
IsCallStep == nCalls' = nCalls + 1

\* C1: query_llm never ends in an uncaught exception, whatever the remote side
\* answers: every invocation ends by returning the answer or a text that starts
\* with "[LLM ERROR" or "[FAILED".  (Under SpecLLM exit changes only when an
\* exception leaves query_llm.)
C1_NeverRaises ==
    /\ exit = ""
    /\ ret # NoRet =>
         \/ ret.line = 299
         \/ StartsWith(ret.text, LLM_ERROR)
         \/ StartsWith(ret.text, FAILED_MARK)

\* C2: without an API key (unset or empty) no request is made and no sleep is taken,
\* and a line forwarded to query_llm gets the error text of line 235 at once,
\* whatever the line and the settings.
C2_NoKeyNoNetwork ==
    api_key \in {None, <<>>} =>
        /\ pc # "llm"
        /\ nCalls = 0 /\ lastCall = NoCall
        /\ lastDelay = NoDelay
        /\ lastIn.asked =>
             /\ pc = "chat"
             /\ ret.line = 235
             /\ StartsWith(ret.text, LLM_ERROR)

C2_Witness ==
    /\ api_key = <<>>
    /\ lastIn.asked
    /\ ret.line = 235
    /\ TERRY_SETTINGS.model # OPEN_MIXTRAL

\* C3: a 404 for the candidate at position i ends the tries on it without a sleep;
\* the next call goes to position i+1 with attempt 0 (after the last position the
\* call returns at line 325); and when that next call gets a 200 with a message
\* content, query_llm returns that content, stripped.
C3_Step ==
    /\ (IsCallStep /\ lastCall'.status = 404) =>
         /\ lastDelay' = NoDelay
         /\ IF lastCall'.idx < Len(model_candidates)
            THEN pc' = "llm" /\ midx' = lastCall'.idx + 1 /\ attempt' = 0
            ELSE pc' = "chat" /\ ret'.line = 325
    /\ (IsCallStep /\ lastCall.status = 404) =>
         /\ lastCall'.idx = lastCall.idx + 1
         /\ lastCall'.attempt = 0
         /\ lastCall'.model = model_candidates[lastCall.idx + 1]
         /\ (lastCall'.status = 200 /\ lastCall'.content # None) =>
              /\ pc' = "chat"
              /\ ret'.line = 299
              /\ ret'.text = Strip(lastCall'.content)

C3_404Fallback == [][C3_Step]_vars

\* 404 on the first model, then 200 on the second
C3_Witness ==
    /\ nCalls = 2
    /\ lastCall.idx = 2
    /\ lastCall.status = 200
    /\ ret.line = 299

\* C4: a 401 on any try of any candidate ends the invocation at once with the text of
\* line 321: query_llm has returned (no call, sleep or other candidate follows), and
\* a 401 on the first call leaves the call count at 1.
C4_401ReturnsAtOnce ==
    lastCall.status = 401 =>
        /\ pc = "chat" /\ exit = ""
        /\ ret = [line |-> 321, text |-> UNAUTHORIZED]
        /\ StartsWith(ret.text, LLM_ERROR)
        /\ lastDelay = NoDelay
        /\ midx = lastCall.idx /\ attempt = lastCall.attempt
        /\ (lastCall.idx = 1 /\ lastCall.attempt = 0) => nCalls = 1

\* a 401 on a later try of the second candidate
C4_Witness ==
    /\ lastCall.status = 401
    /\ lastCall.idx = 2
    /\ lastCall.attempt = 1

\* the delays C5 allows after a retryable status: min(r, 10) when the header is a
\* number r, else a backoff delay min(2^attempt + jitter, 10) with jitter in [0, 0.3]
C5_Delays(ra, att) ==
    IF ra # None /\ ParseFloat(ra) # ValueError
    THEN LET r == ParseFloat(ra)
         IN  {IF r.cls = "inf" \/ (r.cls = "fin" /\ r.v > 100) THEN Fin(100) ELSE r}
    ELSE {Fin(IF 10 * (2 ^ att) + j > 100 THEN 100 ELSE 10 * (2 ^ att) + j) : j \in 0..3}

C5_IsRetryStatus == lastCall.status \in {429, 502, 503, 504}

C6_FailedAfterAll ==
    /\ ret.line = 325 =>
         /\ Len(model_candidates) = 4
         /\ tried = 1..4
         /\ lastCall.idx = 4
         /\ lastCall.status # 200
         /\ last_err # None
         /\ last_err = IF lastCall.kind = "timeout" THEN TIMEOUT ELSE lastCall.text
         /\ ret.text = FAILED \o last_err
    /\ lastCall.status = 200 => ret.line \in {299, 301}
    /\ (ret # NoRet /\ ret.line \notin {299, 325}) => ~StartsWith(ret.text, FAILED_MARK)

\* timeouts on some candidate, then a 404 on the last
C6_Witness ==
    /\ ret.line = 325
    /\ lastCall.status = 404
    /\ nCalls > 8

-----------------------------------------------------------------------------
(* Properties of the session *)

InVerses(vs, v) == \E i \in 1..Len(vs) : vs[i] = v

\* C7: the mode transitions of the session.  In Browse 'q' ends the loop, '/terry'
\* enters Chat, 'h' and 's' stay in Browse with the same record, any other line stays
\* in Browse with a sampled record; in Chat 'b' returns to Browse with a sampled
\* record, 'q' ends the process, every other line stays in Chat (also while
\* query_llm handles it); nothing else changes the mode but an interrupt, which
\* leaves Chat for Browse and ends Browse.
C7_Step ==
    LET cmd == Lower(Strip(lastIn'.line))
    IN  /\ (pc = "browse" /\ lastIn'.mode = "browse") =>
             IF cmd = Q THEN pc' \in {"done", "bye"} /\ exit' = "quit"
             ELSE IF cmd = TERRY THEN pc' = "chat" /\ exit' = ""
             ELSE IF cmd \in {H, S} THEN pc' = "browse" /\ exit' = "" /\ current' = current
             ELSE pc' = "browse" /\ exit' = "" /\ InVerses(verses', current')
        /\ (pc = "chat" /\ lastIn'.mode = "chat") =>
             IF cmd = B THEN pc' = "browse" /\ exit' = "" /\ InVerses(verses', current')
             ELSE IF cmd = Q THEN pc' \in {"done", "bye"} /\ exit' = "SystemExit"
             ELSE pc' \in {"chat", "llm"} /\ exit' = "" /\ current' = current
        /\ pc = "llm" => pc' \in {"llm", "chat", "browse"} /\ exit' = ""
        /\ (pc = "browse" /\ lastIn' = NoIn) => pc' \in {"done", "bye"} /\ exit' = "interrupt"
        /\ (pc = "chat" /\ lastIn' = NoIn) => pc' = "browse" /\ exit' = ""
        /\ pc = "start" => pc' \in {"browse", "failed", "done"}

C7_TwoModeMachine == [][C7_Step]_vars

\* a line that is not blank, 'q' or 'b' and does not begin with a tuning prefix
TuningPrefixes == {MODEL_, TEMP_, MAX_, SETTINGS, SET, SLASH_S}
IsPlainLine(query) ==
    /\ Strip(query) # <<>>
    /\ Lower(Strip(query)) \notin {Q, B}
    /\ \A p \in TuningPrefixes : ~StartsWith(Lower(LStrip(query)), p)

\* C8 as claimed: a Chat line is passed to query_llm exactly when it is not blank,
\* not 'q' or 'b' and does not begin with a tuning prefix, so that the invocations
\* count these lines.
C8_TuningPrefixNeverForwarded ==
    lastIn.mode = "chat" => (lastIn.asked <=> IsPlainLine(lastIn.line))

\* a tuning line as the code takes it: trimmed and lower-cased, it starts with
\* '/model ', '/temp ' or '/max ', or is '/settings', '/set' or '/s'
IsTuningLine(query) ==
    LET low == Lower(Strip(query))
    IN  \/ \E p \in {MODEL_, TEMP_, MAX_} : StartsWith(low, p)
        \/ low \in {SETTINGS, SET, SLASH_S}

\* C8, amended: a Chat line is passed to query_llm exactly when it is not blank, not
\* 'q' or 'b' and not a tuning line as the code takes it.
C8_TuningLineNeverForwarded ==
    lastIn.mode = "chat" =>
        (lastIn.asked <=>
            /\ Strip(lastIn.line) # <<>>
            /\ Lower(Strip(lastIn.line)) \notin {Q, B}
            /\ ~IsTuningLine(lastIn.line))

\* '/settings' with extra text was passed to query_llm
C8_Witness ==
    /\ lastIn.asked
    /\ lastIn.line = <<"/", "s", "e", "t", "t", "i", "n", "g", "s", " ", "n", "o", "w">>
    /\ pc = "llm"

\* C9: a valid '/temp v' sets the temperature to v and nothing else, no other step
\* changes the temperature, and '/settings' shows the settings in force; an invalid
\* '/temp' or '/max' changes nothing; '/model' and '/max' change their own field only.
C9_Step ==
    LET line == lastIn'.line
        low == Lower(Strip(line))
        arg == SplitMax1(Strip(line))[2]
        isChat == pc = "chat" /\ lastIn'.mode = "chat"
        validTemp == isChat /\ StartsWith(low, TEMP_) /\ ParseFloat(arg) # ValueError
        validMax == isChat /\ StartsWith(low, MAX_) /\ ParseInt(arg).ok
        isModel == isChat /\ StartsWith(low, MODEL_)
    IN  /\ TERRY_SETTINGS'.temperature =
             IF validTemp THEN ParseFloat(arg) ELSE TERRY_SETTINGS.temperature
        /\ TERRY_SETTINGS'.max_tokens =
             IF validMax THEN ParseInt(arg).v ELSE TERRY_SETTINGS.max_tokens
        /\ TERRY_SETTINGS'.model = IF isModel THEN arg ELSE TERRY_SETTINGS.model
        /\ (isChat /\ line = <<"/", "t", "e", "m", "p", " ", "0", ".", "3">>) =>
             TERRY_SETTINGS'.temperature = Fin(3)
        /\ (isChat /\ low \in {SETTINGS, SET, SLASH_S}) =>
             /\ settings_shown'.model = TERRY_SETTINGS.model
             /\ settings_shown'.temperature = TERRY_SETTINGS.temperature
             /\ settings_shown'.max_tokens = TERRY_SETTINGS.max_tokens

C9_SettingsRoundTrip == [][C9_Step]_vars

\* '/settings' shows 0.3 after '/temp 0.3', then a changed model and max_tokens
C9_Witness ==
    /\ settings_shown.temperature = Fin(3)
    /\ settings_shown.model = <<"X", "y">>
    /\ settings_shown.max_tokens = 128

\* C10: the favorites file only grows at its end: an 's' at the Browse prompt whose
\* write succeeds appends one line, which holds the record on display, and no other
\* step changes the file; a record is on display whenever the Browse prompt reads.
C10_Step ==
    /\ IF /\ pc = "browse" /\ lastIn'.mode = "browse"
          /\ Lower(Strip(lastIn'.line)) = S
          /\ exit' = ""
       THEN /\ current # NoneVerse /\ InVerses(verses, current)
            /\ favorites' = Append(favorites, [ref |-> current.ref, text |-> current.txt])
       ELSE favorites' = favorites
    /\ pc' = "browse" => current' # NoneVerse /\ InVerses(verses', current')

C10_FavoritesAppendOnly == [][C10_Step]_vars

\* two saves of two records, in the order of the saves
C10_Witness ==
    /\ Len(favorites) = 2
    /\ favorites[1].ref = NO_REF
    /\ favorites[2].ref # NO_REF

\* C11: a failed favorites write is not fatal: an 's' at the Browse prompt whose
\* append fails (a record is on display and the file did not grow) leaves the session
\* at the Browse prompt with the same record on display.
C11_Step ==
    (/\ pc = "browse" /\ lastIn'.mode = "browse"
     /\ Lower(Strip(lastIn'.line)) = S
     /\ current # NoneVerse
     /\ favorites' = favorites)
    => (pc' = "browse" /\ exit' = "" /\ current' = current)

C11_FailedWriteNotFatal == [][C11_Step]_vars

-----------------------------------------------------------------------------
(* Properties of box_text *)

\* C12: every line of box_text's result (top border, reference line, separator,
\* text rows, bottom border) has the same visible width, whatever the reference,
\* the text, the terminal width and the padding.
C12_BoxWidthConstant ==
    box_lines # <<>> =>
        \A i, j \in 1..Len(box_lines) : Len(box_lines[i]) = Len(box_lines[j])

-----------------------------------------------------------------------------
(* Properties of startup *)

\* the corpus file holds no line with a character that is not white space
C13_NoRecord(file) ==
    \A i \in 1..Len(file) : \A k \in 1..Len(file[i]) : IsSpace(file[i][k])

\* C13: with the corpus file missing or holding only blank lines the load fails:
\* nothing is rendered, no Browse command is read and main ends; in every mode the
\* corpus has at least one record, one for every line of the file that is not blank,
\* and no step after the load changes it.
C13_Step ==
    /\ (corpus_file = None \/ C13_NoRecord(corpus_file)) =>
         /\ pc' \in {"start", "failed", "done"}
         /\ verses' = <<>> /\ current' = NoneVerse
         /\ lastIn' = NoIn
         /\ pc = "failed" => pc' = "done"
    /\ (corpus_file # None /\ ~C13_NoRecord(corpus_file) /\ pc = "start"
        /\ exit' # "KeyboardInterrupt") =>
         /\ pc' = "browse"
         /\ Len(verses') = Cardinality({i \in 1..Len(corpus_file) :
                                          ~C13_NoRecord(<<corpus_file[i]>>)})
    /\ pc' \in {"browse", "chat", "llm"} => verses' # <<>>
    /\ pc # "start" => verses' = verses
    /\ corpus_file' = corpus_file

C13_StartupFailsOrLoads == [][C13_Step]_vars

\* a file of blank lines: the load failed and main has ended
C13_Witness ==
    /\ corpus_file # None
    /\ exit = "load failed"
    /\ pc = "done"

-----------------------------------------------------------------------------
(* Properties of the retry loops of query_llm *)

\* C14: an invocation of query_llm makes at most 5 calls per position of the
\* candidate list and at most 20 in all: the try counter stays in 0..4, timeouts and
\* retryable statuses advance the same counter, a new candidate starts at 0, and
\* every call moves the pair (position, try) strictly forward, so no invocation
\* goes on forever.
C14_AtMostTwentyCalls ==
    /\ nCalls <= 20
    /\ attempt \in 0..4
    /\ midx \in 0..4
    /\ lastCall # NoCall => lastCall.attempt \in 0..4 /\ lastCall.idx \in 1..4
    /\ pc = "llm" =>
         /\ midx >= 1
         /\ nCalls <= 5 * (midx - 1) + attempt
         /\ lastCall # NoCall =>
              \/ midx = lastCall.idx /\ attempt = lastCall.attempt + 1
                   /\ (lastCall.kind = "timeout" \/ lastCall.status \in {429, 502, 503, 504})
              \/ midx = lastCall.idx + 1 /\ attempt = 0

\* twenty calls, and the invocation has returned
C14_Witness ==
    /\ nCalls = 20
    /\ lastCall.idx = 4 /\ lastCall.attempt = 4
    /\ pc = "chat"
    /\ ret.line = 325

\* C15: a timeout is followed by a sleep and, on tries 1 to 4 of a candidate, by a
\* call to the same candidate; after a timeout on the fifth try the next candidate
\* is called, and after one on the fifth try of the last candidate query_llm
\* returns the text of line 325 with last error "timeout".  The calls of an
\* invocation start at the first candidate and go through the positions in order,
\* never back.
C15_Step ==
    /\ (IsCallStep /\ lastCall'.kind = "timeout") =>
         /\ lastDelay' # NoDelay
         /\ last_err' = TIMEOUT
         /\ IF lastCall'.attempt < 4
            THEN pc' = "llm" /\ midx' = lastCall'.idx /\ attempt' = lastCall'.attempt + 1
            ELSE IF lastCall'.idx < 4
            THEN pc' = "llm" /\ midx' = lastCall'.idx + 1 /\ attempt' = 0
            ELSE /\ pc' = "chat"
                 /\ ret'.line = 325
                 /\ ret'.text = FAILED \o <<"t", "i", "m", "e", "o", "u", "t">>
    /\ (IsCallStep /\ lastCall.kind = "timeout") =>
         IF lastCall.attempt < 4
         THEN /\ lastCall'.idx = lastCall.idx
              /\ lastCall'.model = lastCall.model
              /\ lastCall'.attempt = lastCall.attempt + 1
         ELSE /\ lastCall'.idx = lastCall.idx + 1
              /\ lastCall'.attempt = 0
    /\ (IsCallStep /\ nCalls = 0) => lastCall'.idx = 1 /\ lastCall'.attempt = 0
    /\ (IsCallStep /\ nCalls > 0) => lastCall'.idx \in {lastCall.idx, lastCall.idx + 1}

C15_TimeoutRetries == [][C15_Step]_vars

\* twenty calls, the last one timed out, and the text of line 325 says so
C15_Witness ==
    /\ nCalls = 20
    /\ lastCall.kind = "timeout"
    /\ ret.text = FAILED \o TIMEOUT

\* the last call ended in a transport exception other than a timeout, in a 200
\* without a message content, or in a status the client has no branch for
C16_Fatal ==
    \/ lastCall.kind = "exception"
    \/ lastCall.kind = "http" /\ lastCall.status = 200 /\ lastCall.content = None
    \/ lastCall.kind = "http" /\ lastCall.status \notin {200, 401, 404, 429, 502, 503, 504}

-----------------------------------------------------------------------------
(* Properties of interrupts *)

\* C17, the interrupts of the two modes: a step of Chat mode that reads no line and
\* makes no call is an interrupt (at the prompt, in a call or in a sleep); it leads
\* to the Browse prompt with a record rendered and the settings as they were.  A
\* step at the Browse prompt that reads no line is an interrupt and ends the session.
C17_ModeInterrupts ==
    /\ ((pc = "chat" /\ lastIn' = NoIn) \/ (pc = "llm" /\ ~IsCallStep)) =>
         /\ pc' = "browse" /\ exit' = ""
         /\ InVerses(verses', current')
         /\ TERRY_SETTINGS' = TERRY_SETTINGS
    /\ (pc = "browse" /\ lastIn' = NoIn) =>
         /\ pc' \in {"done", "bye"}
         /\ exit' = "interrupt"

\* C17: the interrupts of the two modes, and no interrupt ends the process as an
\* uncaught KeyboardInterrupt.
C17_Step ==
    /\ C17_ModeInterrupts
    /\ exit' # "KeyboardInterrupt"

C17_InterruptsRecovered == [][C17_Step]_vars

-----------------------------------------------------------------------------
(* Properties of the sleeps of query_llm *)

\* time.sleep returned for the delay that followed the last call
C18_Slept ==
    /\ lastDelay.cls \in {"fin", "inf"}
    /\ lastDelay.cls = "fin" => lastDelay.v >= 0
    /\ exit = ""

\* C18 as claimed: after every backoff sleep query_llm is still running and its next
\* call goes to the model of the call before the sleep.
C18_SleepThenSameModel ==
    C18_Slept => (pc = "llm" /\ midx = lastCall.idx)

\* C18, amended: a sleep follows a timeout or a retryable status only; after a sleep
\* on tries 1 to 4 the next call goes to the same model, after a sleep on the fifth
\* try it goes to the next candidate, and after the last candidate query_llm returns
\* the text of line 325 without another call.  A sleep called with a delay it
\* rejects ends the process.
C18_SleepThenRetryOrAdvance ==
    lastDelay # NoDelay =>
        /\ lastCall.kind = "timeout" \/ lastCall.status \in {429, 502, 503, 504}
        /\ IF C18_Slept
           THEN IF lastCall.attempt < 4
                THEN pc = "llm" /\ midx = lastCall.idx /\ attempt = lastCall.attempt + 1
                     /\ model_candidates[midx] = lastCall.model
                ELSE IF lastCall.idx < 4
                THEN pc = "llm" /\ midx = lastCall.idx + 1 /\ attempt = 0
                ELSE pc = "chat" /\ ret.line = 325
           ELSE pc \in {"done", "bye"} /\ exit \in {"ValueError", "OverflowError"}

\* a sleep of 10 s after a timeout on the fifth try, and the next candidate is due
C18_Witness ==
    /\ lastCall.kind = "timeout"
    /\ lastCall.attempt = 4
    /\ lastDelay = Fin(100)
    /\ pc = "llm"
    /\ midx = lastCall.idx + 1

\* C19: every delay passed to time.sleep is between 0 and 10 s, after a timeout and
\* after a retryable status, whatever the try and the Retry-After header.
C19_DelayInRange ==
    lastDelay # NoDelay =>
        /\ lastDelay.cls = "fin"
        /\ 0 <= lastDelay.v /\ lastDelay.v <= 100

-----------------------------------------------------------------------------
(* Properties of the settings query_llm uses *)

\* the fixed list that follows the tuned model
C20_Fallbacks ==
    << <<"m", "i", "s", "t", "r", "a", "l", "-", "l", "a", "r", "g", "e", "-", "l", "a", "t",
         "e", "s", "t">>,
       <<"m", "i", "s", "t", "r", "a", "l", "-", "s", "m", "a", "l", "l", "-", "l", "a", "t",
         "e", "s", "t">>,
       <<"o", "p", "e", "n", "-", "m", "i", "x", "t", "r", "a", "l", "-", "8", "x", "7", "b">> >>

\* C20: the first call of an invocation names the model set last, the calls after a
\* fallback name the fixed list in its order, every call carries the temperature and
\* max_tokens set last, and no step of query_llm (forwarding the line included)
\* changes the settings.
C20_Step ==
    /\ IsCallStep =>
         /\ lastCall'.model = IF lastCall'.idx = 1 THEN TERRY_SETTINGS.model
                              ELSE C20_Fallbacks[lastCall'.idx - 1]
         /\ lastCall'.temperature = TERRY_SETTINGS.temperature
         /\ lastCall'.max_tokens = TERRY_SETTINGS.max_tokens
         /\ nCalls = 0 => lastCall'.idx = 1
    /\ (pc = "llm" \/ lastIn'.asked) => TERRY_SETTINGS' = TERRY_SETTINGS

C20_SettingsInForce == [][C20_Step]_vars

\* after '/model', '/temp' and '/max' the first candidate timed out five times and
\* the call went to the first model of the fixed list with the tuned values
C20_Witness ==
    /\ TERRY_SETTINGS = [model |-> <<"X", "y">>, temperature |-> Fin(3), max_tokens |-> 128]
    /\ lastCall.idx = 2
    /\ lastCall.model = C20_Fallbacks[1]
    /\ lastCall.temperature = Fin(3)
    /\ lastCall.max_tokens = 128

====
